---- MODULE Spec2Model ----
(***************************************************************************)
(* Model of src/main.py: the hand-written Dijkstra search                  *)
(* (find_shortest_path_dijkstra) and the two-scenario, edge-exclusive      *)
(* routing of App.on_button_click ("Doble Dijkstra").                      *)
(*                                                                         *)
(*   SpecDijkstra  runs find_shortest_path_dijkstra statement by statement *)
(*                 on every bounded graph, source and target.              *)
(*   Spec          runs the App: a map is loaded once, then destination    *)
(*                 buttons are clicked and each click is arbitrated.       *)
(***************************************************************************)
EXTENDS Integers, Sequences, FiniteSets

VARIABLES
    \* find_shortest_path_dijkstra, statement by statement (SpecDijkstra)
    graph, start, end,  \* the arguments
    search,             \* distances, predecessors, priority_queue, loop left by break
    walk,               \* path, current of the reconstruction
    d_pc,               \* "call", "loop", "walk", "done"
    result,             \* the returned (path, cost), or the raised KeyError
    \* App (Spec)
    G, CASA_JAVIER, CASA_ANDREINA,  \* set by load_config_and_build_graphs
    pc,                 \* position in on_button_click
    destino_coords,
    ruta_j1, tiempo_j1, G_temp1, ruta_a1, tiempo_a1, total_tiempo1,
    ruta_a2, tiempo_a2, G_temp2, ruta_j2, tiempo_j2, total_tiempo2,
    escenario,          \* the scenario the decision names (0 before it)
    ruta_j_final, tiempo_j_final, ruta_a_final, tiempo_a_final,
    sincronizacion,     \* the SINCRONIZACION lines of the output
    output              \* which ending the results box shows

dvars == <<graph, start, end, search, walk, d_pc, result>>
s1vars == <<ruta_j1, tiempo_j1, G_temp1, ruta_a1, tiempo_a1, total_tiempo1>>
s2vars == <<ruta_a2, tiempo_a2, G_temp2, ruta_j2, tiempo_j2, total_tiempo2>>
fvars == <<escenario, ruta_j_final, tiempo_j_final, ruta_a_final, tiempo_a_final,
           sincronizacion>>
cvars == <<G, CASA_JAVIER, CASA_ANDREINA>>
avars == <<cvars, pc, destino_coords, s1vars, s2vars, fvars, output>>
vars == <<dvars, avars>>

\* ---------------------------------------------------------------- bounds
NumNodes == 4
MaxWeight == 2

\* ------------------------------------------------------------- constants
\* float('inf'): larger than any finite path cost of a bounded graph.
Inf == 1000
\* Python's None in the predecessors dictionary (no node is negative).
None == -1
\* A node value that is in no graph (an absent source or target).
Absent == 0

GraphNodes == 1..NumNodes
Universe == {Absent} \cup GraphNodes
Weights == 0..MaxWeight
\* The candidate streets: unordered pairs, written with the smaller node first.
Pairs == {p \in GraphNodes \X GraphNodes : p[1] < p[2]}

\* ------------------------------------------------------ networkx.Graph
\* A graph is [nodes, adj]; adj maps an ordered pair <<u, v>> to the weight
\* of the edge as stored in adj[u][v]. An undirected graph stores each edge
\* under both orders.
add_edges(E, w) ==
    [nodes |-> GraphNodes,
     adj |-> [p \in E \cup {<<q[2], q[1]>> : q \in E} |->
                 IF p \in E THEN w[p] ELSE w[<<p[2], p[1]>>]]]

Graphs == UNION {{add_edges(E, w) : w \in [E -> Weights]} : E \in SUBSET Pairs}

\* The value of a graph variable before its first assignment.
NoGraph == [nodes |-> {}, adj |-> [p \in {} |-> 0]]

has_edge(g, u, v) == <<u, v>> \in DOMAIN g.adj

neighbors(g, u) == {v \in g.nodes : <<u, v>> \in DOMAIN g.adj}

weight(g, u, v) == g.adj[<<u, v>>]

\* A removal that forgets the entry stored under the other order.
remove_edge_one_way(g, u, v) ==
    [g EXCEPT !.adj = [p \in (DOMAIN g.adj) \ {<<u, v>>} |-> g.adj[p]]]

remove_edge(g, u, v) ==
    [g EXCEPT !.adj = [p \in (DOMAIN g.adj) \ {<<u, v>>, <<v, u>>} |-> g.adj[p]]]

\* float addition: anything plus infinity is infinity.
Add(a, b) == IF a = Inf \/ b = Inf THEN Inf ELSE a + b

\* ------------------------------------------- find_shortest_path_dijkstra
\* A queue that hands out its largest entry (a max-heap, or a list popped at
\* the wrong end).
heappop_largest(q) ==
    CHOOSE e \in q : \A f \in q : e[1] > f[1] \/ (e[1] = f[1] /\ e[2] >= f[2])

\* heapq.heappop on (cost, node) tuples: the smallest cost, ties by node.
heappop(q) ==
    CHOOSE e \in q : \A f \in q : e[1] < f[1] \/ (e[1] = f[1] /\ e[2] <= f[2])

\* A relaxation that also fires on an equal candidate.
Improves_or_equal(candidate, best) == candidate <= best

\* The strict comparison of the relaxation step.
Improves(candidate, best) == candidate < best

\* The staleness test on an extracted entry.
IsStale(current_distance, best) == current_distance > best

\* The early-termination test on an extracted node.
IsTarget(current_node, e) == current_node = e

\* The initialisation without line 35 (distances[start] = 0).
DijkstraInit_no_zero(g, s) ==
    [distances |-> [n \in g.nodes |-> Inf],
     predecessors |-> [n \in g.nodes |-> None],
     priority_queue |-> {<<0, s>>},
     broke |-> FALSE]

\* The state before the main loop.
DijkstraInit(g, s) ==
    [distances |-> [n \in g.nodes |-> IF n = s THEN 0 ELSE Inf],
     predecessors |-> [n \in g.nodes |-> None],
     priority_queue |-> {<<0, s>>},
     broke |-> FALSE]

\* One iteration of the main loop on state st (queue not empty).
LoopStep(g, e, st) ==
    LET top == heappop(st.priority_queue)
        current_distance == top[1]
        current_node == top[2]
        rest == st.priority_queue \ {top}
        better == {v \in neighbors(g, current_node) :
                      /\ has_edge(g, current_node, v)
                      /\ Improves(current_distance + weight(g, current_node, v),
                                  st.distances[v])}
    IN  IF IsStale(current_distance, st.distances[current_node])
        THEN [st EXCEPT !.priority_queue = rest]
        ELSE IF IsTarget(current_node, e)
        THEN [st EXCEPT !.priority_queue = rest, !.broke = TRUE]
        ELSE [distances |-> [n \in g.nodes |->
                                IF n \in better
                                THEN current_distance + weight(g, current_node, n)
                                ELSE st.distances[n]],
              predecessors |-> [n \in g.nodes |->
                                IF n \in better THEN current_node
                                ELSE st.predecessors[n]],
              priority_queue |-> rest \cup
                  {<<current_distance + weight(g, current_node, v), v>> : v \in better},
              broke |-> FALSE]

LoopDone(st) == st.priority_queue = {} \/ st.broke

RECURSIVE RunLoop(_, _, _)
RunLoop(g, e, st) ==
    IF LoopDone(st) THEN st ELSE RunLoop(g, e, LoopStep(g, e, st))

\* predecessors.get(current): None for a key that is not there.
PredGet(predecessors, c) ==
    IF c \in DOMAIN predecessors THEN predecessors[c] ELSE None

Unreachable == [path |-> << >>, cost |-> Inf, raised |-> FALSE]
KeyError == [path |-> << >>, cost |-> Inf, raised |-> TRUE]

\* The path returned as the walk collected it, target first.
Reverse_forgotten(sq) == sq

Reverse(sq) == [i \in 1..Len(sq) |-> sq[Len(sq) + 1 - i]]

\* The predecessor walk on w = [path, current, cost, ended, out]: ended says
\* that the walk has left its loop, out is then the value to return.
WalkDone(w) == w.ended

\* One test of the while condition and, if it holds, one step back.
WalkStep(s, st, w) ==
    IF w.current = s
    THEN [w EXCEPT !.ended = TRUE,
                   !.out = [path |-> Reverse(Append(w.path, s)),
                            cost |-> w.cost, raised |-> FALSE]]
    ELSE IF w.current = None
    THEN [w EXCEPT !.ended = TRUE, !.out = Unreachable]
    ELSE [w EXCEPT !.path = Append(w.path, w.current),
                   !.current = PredGet(st.predecessors, w.current)]

RECURSIVE RunWalk(_, _, _)
RunWalk(s, st, w) ==
    IF WalkDone(w) THEN w.out ELSE RunWalk(s, st, WalkStep(s, st, w))

\* The start of the reconstruction, after the main loop.
WalkInit(e, st) ==
    [path |-> << >>, current |-> e, cost |-> st.distances[e],
     ended |-> FALSE, out |-> Unreachable]

\* After the main loop: the lookup distances[end] and the reconstruction.
Reconstruct(s, e, st) ==
    IF e \notin DOMAIN st.distances THEN KeyError
    ELSE IF st.distances[e] = Inf THEN Unreachable
    ELSE RunWalk(s, st, WalkInit(e, st))

find_shortest_path_dijkstra(g, s, e) ==
    IF s \notin g.nodes THEN Unreachable
    ELSE Reconstruct(s, e, RunLoop(g, e, DijkstraInit(g, s)))

\* ------------------------------------------------ SpecDijkstra: one call
NoState == [distances |-> << >>, predecessors |-> << >>, priority_queue |-> {},
            broke |-> FALSE]
NoWalk == [path |-> << >>, current |-> None, cost |-> Inf, ended |-> FALSE,
           out |-> Unreachable]

AppIdle ==
    /\ G = NoGraph /\ CASA_JAVIER = Absent /\ CASA_ANDREINA = Absent
    /\ pc = "Idle" /\ destino_coords = Absent
    /\ ruta_j1 = << >> /\ tiempo_j1 = 0 /\ G_temp1 = NoGraph
    /\ ruta_a1 = << >> /\ tiempo_a1 = 0 /\ total_tiempo1 = 0
    /\ ruta_a2 = << >> /\ tiempo_a2 = 0 /\ G_temp2 = NoGraph
    /\ ruta_j2 = << >> /\ tiempo_j2 = 0 /\ total_tiempo2 = 0
    /\ escenario = 0
    /\ ruta_j_final = << >> /\ tiempo_j_final = 0
    /\ ruta_a_final = << >> /\ tiempo_a_final = 0
    /\ sincronizacion = [primero |-> "", diferencia |-> 0]
    /\ output = ""

DijkstraIdle ==
    /\ graph = NoGraph /\ start = Absent /\ end = Absent
    /\ search = NoState /\ walk = NoWalk /\ d_pc = "idle" /\ result = Unreachable

InitDijkstra ==
    /\ graph \in Graphs
    /\ start \in Universe
    /\ end \in Universe
    /\ search = NoState /\ walk = NoWalk /\ d_pc = "call" /\ result = Unreachable
    /\ AppIdle

\* Lines 24-40: the dictionaries, the absent-source return, the queue.
D_Enter ==
    /\ d_pc = "call"
    /\ IF start \notin graph.nodes
       THEN /\ result' = Unreachable /\ d_pc' = "done" /\ search' = search
       ELSE /\ search' = DijkstraInit(graph, start) /\ d_pc' = "loop"
            /\ result' = result
    /\ UNCHANGED <<graph, start, end, walk, avars>>

\* Lines 44-78: one iteration of the while loop.
D_Loop ==
    /\ d_pc = "loop" /\ ~LoopDone(search)
    /\ search' = LoopStep(graph, end, search)
    /\ UNCHANGED <<graph, start, end, walk, d_pc, result, avars>>

\* Lines 82-88: the loop has ended; distances[end] is looked up.
D_LoopExit ==
    /\ d_pc = "loop" /\ LoopDone(search)
    /\ IF end \notin DOMAIN search.distances
       THEN /\ result' = KeyError /\ d_pc' = "done" /\ walk' = walk
       ELSE IF search.distances[end] = Inf
       THEN /\ result' = Unreachable /\ d_pc' = "done" /\ walk' = walk
       ELSE /\ walk' = WalkInit(end, search) /\ d_pc' = "walk" /\ result' = result
    /\ UNCHANGED <<graph, start, end, search, avars>>

\* Lines 89-94: one test of the while condition, one step back.
D_Walk ==
    /\ d_pc = "walk" /\ ~WalkDone(walk)
    /\ walk' = WalkStep(start, search, walk)
    /\ UNCHANGED <<graph, start, end, search, d_pc, result, avars>>

\* Lines 92, 96-100: the return.
D_Return ==
    /\ d_pc = "walk" /\ WalkDone(walk)
    /\ result' = walk.out /\ d_pc' = "done"
    /\ UNCHANGED <<graph, start, end, search, walk, avars>>

NextDijkstra == D_Enter \/ D_Loop \/ D_LoopExit \/ D_Walk \/ D_Return

SpecDijkstra == InitDijkstra /\ [][NextDijkstra]_vars

\* The call is synchronous and single-threaded: once entered, its statements
\* run one after the other until it returns or raises.
SpecDijkstraFair == SpecDijkstra /\ WF_vars(NextDijkstra)

\* The statement-by-statement run returns what the operator computes.
StepwiseAgrees ==
    d_pc = "done" => result = find_shortest_path_dijkstra(graph, start, end)

\* ------------------------------------------ reference: all simple paths
\* The least total weight over the simple paths from u to t that avoid the
\* nodes in seen (u is in seen); Inf when there is none. With weights >= 0
\* a walk that repeats a node is never cheaper than the simple path in it.
Min(S) == CHOOSE x \in S : \A y \in S : x <= y

RECURSIVE BruteForce(_, _, _, _)
BruteForce(g, u, t, seen) ==
    IF u = t THEN 0
    ELSE Min({Inf} \cup
             {Add(g.adj[<<u, v>>], BruteForce(g, v, t, seen \cup {v})) :
                 v \in {x \in g.nodes \ seen : <<u, x>> \in DOMAIN g.adj}})

\* The minimum over all source-to-target paths; Inf when no path exists,
\* which is also the case when the source or the target is no node of g.
MinPathCost(g, s, t) ==
    IF s \notin g.nodes \/ t \notin g.nodes THEN Inf ELSE BruteForce(g, s, t, {s})

\* ------------------------------------------------- claims on one search
\* C1: for source and target in the graph and joined by some path, the
\* returned cost is the minimum total weight over all source-to-target
\* paths, although the loop stops at the first extraction of the target.
C1_MinimumCost ==
    (d_pc = "done" /\ MinPathCost(graph, start, end) # Inf)
        => /\ ~result.raised
           /\ result.cost = MinPathCost(graph, start, end)

\* C1 witness: the search left its loop by the break with entries still
\* queued, and returned the minimum cost along a path of three or more nodes.
C1_Witness ==
    /\ d_pc = "done"
    /\ search.broke /\ search.priority_queue # {}
    /\ Len(result.path) >= 3
    /\ result.cost = MinPathCost(graph, start, end)
    /\ result.cost > 0

\* C5: whenever no path joins source and target (either may be no node of
\* the graph) the search returns the unreachable result as a value and
\* raises nothing.
C5_UnreachableIsAValue ==
    (d_pc = "done" /\ MinPathCost(graph, start, end) = Inf)
        => result = Unreachable

\* C6 as stated: for every graph and every node value s, searching from s
\* to s returns the path [s] with cost 0.
C6_SelfPathAnyNode ==
    (d_pc = "done" /\ start = end)
        => result = [path |-> <<start>>, cost |-> 0, raised |-> FALSE]

\* C6 as amended: for every graph and every node s of that graph, searching
\* from s to s returns the path [s] with cost 0.
C6_SelfPath ==
    (d_pc = "done" /\ start = end /\ start \in graph.nodes)
        => result = [path |-> <<start>>, cost |-> 0, raised |-> FALSE]

\* C6 witness: a search from a node to itself has returned, the node having
\* a zero-weight street to a neighbour.
C6_Witness ==
    /\ d_pc = "done" /\ start = end /\ start \in graph.nodes
    /\ \E v \in neighbors(graph, start) : weight(graph, start, v) = 0
    /\ result.path = <<start>>

\* ------------------------------------------------------------------ App
\* zip(path, path[1:]) walked from pair i on, removing each pair's edge.
RECURSIVE RemoveFrom(_, _, _)
RemoveFrom(g, ruta, i) ==
    IF i >= Len(ruta) THEN g
    ELSE RemoveFrom(IF has_edge(g, ruta[i], ruta[i + 1])
                    THEN remove_edge(g, ruta[i], ruta[i + 1])
                    ELSE g,
                    ruta, i + 1)

\* A reduction that removes nothing.
ReducedGraph_keeps_all(g, ruta) == g

\* Lines 414-419 and 442-447: G_temp = self.G.copy() less the route's edges.
ReducedGraph(g, ruta) == RemoveFrom(g, ruta, 1)

\* G_temp = self.G without .copy(): the removal reaches self.G.
OriginalAfterRemoval_shared(g, ruta) == RemoveFrom(g, ruta, 1)

\* What lines 414-419 and 442-447 leave in self.G: the removal works on the
\* copy, which shares no adjacency with self.G.
OriginalAfterRemoval(g, ruta) == g

\* App.get_path_cost_from_original_graph, from pair i on with cost so far.
RECURSIVE CostFrom(_, _, _, _)
CostFrom(g, ruta, i, cost) ==
    IF i >= Len(ruta) THEN cost
    ELSE IF has_edge(g, ruta[i], ruta[i + 1])
    THEN CostFrom(g, ruta, i + 1, cost + weight(g, ruta[i], ruta[i + 1]))
    ELSE Inf

\* A sum that skips the first street of the route.
get_path_cost_skips_first(g, ruta) == CostFrom(g, ruta, 2, 0)

get_path_cost_from_original_graph(g, ruta) == CostFrom(g, ruta, 1, 0)

\* A comparison that gives ties to Scenario 2.
EligeEscenario1_strict(total1, total2) == total1 < total2

\* Line 468: the scenario comparison.
EligeEscenario1(total1, total2) == total1 <= total2

\* A test that gives up as soon as one scenario fails.
NoHaySolucion_either(total1, total2) == total1 = Inf \/ total2 = Inf

\* Line 460: the test for the critical error.
NoHaySolucion(total1, total2) == total1 = Inf /\ total2 = Inf

\* A directive that sends the faster walker first.
Sincronizacion_swapped(tj, ta) ==
    IF tj > ta THEN [primero |-> "Andreina", diferencia |-> tj - ta]
    ELSE IF ta > tj THEN [primero |-> "Javier", diferencia |-> ta - tj]
    ELSE [primero |-> "Juntos", diferencia |-> 0]

\* Lines 494-506: who leaves first, and how much later the other leaves.
Sincronizacion(tj, ta) ==
    IF tj > ta THEN [primero |-> "Javier", diferencia |-> tj - ta]
    ELSE IF ta > tj THEN [primero |-> "Andreina", diferencia |-> ta - tj]
    ELSE [primero |-> "Juntos", diferencia |-> 0]

NoSincronizacion == [primero |-> "", diferencia |-> 0]

\* The App after __init__: load_config_and_build_graphs has built the map
\* and draw_graph has labelled the two homes and every destination at their
\* positions on it, so all of them are nodes of G. The maps are all the
\* undirected weighted graphs on the bounded node set; the street grids the
\* loader builds (a 2 x 2 block, a single street) are among them.
Init ==
    /\ G \in Graphs
    /\ CASA_JAVIER \in G.nodes
    /\ CASA_ANDREINA \in G.nodes
    /\ pc = "Idle" /\ destino_coords = Absent
    /\ ruta_j1 = << >> /\ tiempo_j1 = 0 /\ G_temp1 = NoGraph
    /\ ruta_a1 = << >> /\ tiempo_a1 = 0 /\ total_tiempo1 = 0
    /\ ruta_a2 = << >> /\ tiempo_a2 = 0 /\ G_temp2 = NoGraph
    /\ ruta_j2 = << >> /\ tiempo_j2 = 0 /\ total_tiempo2 = 0
    /\ escenario = 0
    /\ ruta_j_final = << >> /\ tiempo_j_final = 0
    /\ ruta_a_final = << >> /\ tiempo_a_final = 0
    /\ sincronizacion = NoSincronizacion
    /\ output = ""
    /\ DijkstraIdle

\* Lines 391-399: a destination button is clicked (the handler runs to its
\* end before the next click is served); the locals of the last run are gone.
OnButtonClick(d) ==
    /\ pc \in {"Idle", "Fin"}
    /\ pc' = "Escenario1"
    /\ destino_coords' = d
    /\ ruta_j1' = << >> /\ tiempo_j1' = 0 /\ G_temp1' = NoGraph
    /\ ruta_a1' = << >> /\ tiempo_a1' = 0 /\ total_tiempo1' = 0
    /\ ruta_a2' = << >> /\ tiempo_a2' = 0 /\ G_temp2' = NoGraph
    /\ ruta_j2' = << >> /\ tiempo_j2' = 0 /\ total_tiempo2' = 0
    /\ escenario' = 0
    /\ ruta_j_final' = << >> /\ tiempo_j_final' = 0
    /\ ruta_a_final' = << >> /\ tiempo_a_final' = 0
    /\ sincronizacion' = NoSincronizacion
    /\ output' = ""
    /\ UNCHANGED <<cvars, dvars>>

\* Lines 405-411 without the return of line 411: the handler goes on.
Escenario1Error_no_return ==
    /\ pc = "Escenario1"
    /\ \E j1 \in {find_shortest_path_dijkstra(G, CASA_JAVIER, destino_coords)} :
           /\ j1.cost = Inf
           /\ ruta_j1' = j1.path /\ tiempo_j1' = j1.cost
    /\ output' = "ErrorJavier"
    /\ pc' = "Escenario2"
    /\ UNCHANGED <<cvars, destino_coords, G_temp1, ruta_a1, tiempo_a1,
                   total_tiempo1, s2vars, fvars, dvars>>

\* Lines 405-411: Javier cannot reach the destination at all.
Escenario1Error ==
    /\ pc = "Escenario1"
    /\ \E j1 \in {find_shortest_path_dijkstra(G, CASA_JAVIER, destino_coords)} :
           /\ j1.cost = Inf
           /\ ruta_j1' = j1.path /\ tiempo_j1' = j1.cost
    /\ output' = "ErrorJavier"
    /\ pc' = "Fin"
    /\ UNCHANGED <<cvars, destino_coords, G_temp1, ruta_a1, tiempo_a1,
                   total_tiempo1, s2vars, fvars, dvars>>

\* Lines 405-427: Javier chooses first, Andreina routes on what is left.
Escenario1 ==
    /\ pc = "Escenario1"
    /\ \E j1 \in {find_shortest_path_dijkstra(G, CASA_JAVIER, destino_coords)} :
           /\ j1.cost # Inf
           /\ \E temp \in {ReducedGraph(G, j1.path)} :
               \E a1 \in {find_shortest_path_dijkstra(temp, CASA_ANDREINA,
                                                      destino_coords)} :
                  /\ ruta_j1' = j1.path /\ tiempo_j1' = j1.cost
                  /\ G_temp1' = temp
                  /\ G' = OriginalAfterRemoval(G, j1.path)
                  /\ ruta_a1' = a1.path /\ tiempo_a1' = a1.cost
                  /\ total_tiempo1' = Add(j1.cost, a1.cost)
    /\ pc' = "Escenario2"
    /\ UNCHANGED <<CASA_JAVIER, CASA_ANDREINA, destino_coords, s2vars, fvars,
                   output, dvars>>

\* Lines 433-439: Andreina cannot reach the destination at all.
Escenario2Error ==
    /\ pc = "Escenario2"
    /\ \E a2 \in {find_shortest_path_dijkstra(G, CASA_ANDREINA, destino_coords)} :
           /\ a2.cost = Inf
           /\ ruta_a2' = a2.path /\ tiempo_a2' = a2.cost
    /\ output' = "ErrorAndreina"
    /\ pc' = "Fin"
    /\ UNCHANGED <<cvars, destino_coords, s1vars, G_temp2, ruta_j2, tiempo_j2,
                   total_tiempo2, fvars, dvars>>

\* Lines 433-455: Andreina chooses first, Javier routes on what is left.
Escenario2 ==
    /\ pc = "Escenario2"
    /\ \E a2 \in {find_shortest_path_dijkstra(G, CASA_ANDREINA, destino_coords)} :
           /\ a2.cost # Inf
           /\ \E temp \in {ReducedGraph(G, a2.path)} :
               \E j2 \in {find_shortest_path_dijkstra(temp, CASA_JAVIER,
                                                      destino_coords)} :
                  /\ ruta_a2' = a2.path /\ tiempo_a2' = a2.cost
                  /\ G_temp2' = temp
                  /\ G' = OriginalAfterRemoval(G, a2.path)
                  /\ ruta_j2' = j2.path /\ tiempo_j2' = j2.cost
                  /\ total_tiempo2' = Add(a2.cost, j2.cost)
    /\ pc' = "Decision"
    /\ UNCHANGED <<CASA_JAVIER, CASA_ANDREINA, destino_coords, s1vars, fvars,
                   output, dvars>>

\* Lines 460-466: neither scenario gets both walkers there.
DecisionError ==
    /\ pc = "Decision"
    /\ NoHaySolucion(total_tiempo1, total_tiempo2)
    /\ output' = "ErrorCritico"
    /\ pc' = "Fin"
    /\ UNCHANGED <<cvars, destino_coords, s1vars, s2vars, fvars, dvars>>

\* Lines 468-512: the faster scenario, the costs on self.G, the departures.
Decision ==
    /\ pc = "Decision"
    /\ ~NoHaySolucion(total_tiempo1, total_tiempo2)
    /\ LET uno == EligeEscenario1(total_tiempo1, total_tiempo2)
           rj == IF uno THEN ruta_j1 ELSE ruta_j2
           ra == IF uno THEN ruta_a1 ELSE ruta_a2
           tj == get_path_cost_from_original_graph(G, rj)
           ta == get_path_cost_from_original_graph(G, ra)
       IN  /\ escenario' = IF uno THEN 1 ELSE 2
           /\ ruta_j_final' = rj /\ tiempo_j_final' = tj
           /\ ruta_a_final' = ra /\ tiempo_a_final' = ta
           /\ sincronizacion' = Sincronizacion(tj, ta)
    /\ output' = "Exito"
    /\ pc' = "Fin"
    /\ UNCHANGED <<cvars, destino_coords, s1vars, s2vars, dvars>>

Next ==
    \/ \E d \in G.nodes : OnButtonClick(d)
    \/ Escenario1Error
    \/ Escenario1
    \/ Escenario2Error
    \/ Escenario2
    \/ DecisionError
    \/ Decision

Spec == Init /\ [][Next]_vars

TypeOK ==
    /\ pc \in {"Idle", "Escenario1", "Escenario2", "Decision", "Fin"}
    /\ output \in {"", "ErrorJavier", "ErrorAndreina", "ErrorCritico", "Exito"}
    /\ escenario \in 0..2

\* --------------------------------------------------- claims on the App
\* The street segments a route walks, as unordered node pairs.
EdgesOf(ruta) == {{ruta[i], ruta[i + 1]} : i \in 1..(Len(ruta) - 1)}

Exito == pc = "Fin" /\ output = "Exito"

\* Scenario 1 (resp. 2) has been evaluated to its total in this request.
Evaluated1 == pc \in {"Escenario2", "Decision"} \/ (pc = "Fin" /\ output # "ErrorJavier")
Evaluated2 == pc = "Decision" \/ (pc = "Fin" /\ output \in {"ErrorCritico", "Exito"})

\* A scenario's total as the design defines it: the first walker's search on
\* the map, the second walker's on the map less the first route's streets,
\* infinite if either leg is unreachable.
ScenarioTotal(g, first, second, d) ==
    LET r1 == find_shortest_path_dijkstra(g, first, d)
    IN  IF r1.cost = Inf THEN Inf
        ELSE Add(r1.cost,
                 find_shortest_path_dijkstra(RemoveFrom(g, r1.path, 1), second, d).cost)

\* C2: on success the two final routes share no street segment, in either
\* direction, whichever scenario was chosen.
C2_NoSharedEdge ==
    Exito => EdgesOf(ruta_j_final) \cap EdgesOf(ruta_a_final) = {}

\* C2 witness: a success in which both final routes walk two or more
\* segments and the second chooser was pushed off its own shortest route.
C2_Witness ==
    /\ Exito
    /\ Len(ruta_j_final) >= 3 /\ Len(ruta_a_final) >= 3
    /\ \/ /\ escenario = 1
          /\ tiempo_a1 >
                find_shortest_path_dijkstra(G, CASA_ANDREINA, destino_coords).cost
       \/ /\ escenario = 2
          /\ tiempo_j2 >
                find_shortest_path_dijkstra(G, CASA_JAVIER, destino_coords).cost

\* C3: once both scenarios are evaluated and at least one total is finite,
\* the request succeeds and Scenario 1 is the choice exactly when
\* total1 <= total2 (ties go to Scenario 1), Scenario 2 otherwise, so the
\* chosen total is min(total1, total2) and is finite.
C3_SmallerTotalWins ==
    (pc = "Fin" /\ Evaluated2 /\ (total_tiempo1 # Inf \/ total_tiempo2 # Inf)) =>
        LET chosen == IF escenario = 1 THEN total_tiempo1 ELSE total_tiempo2
        IN  /\ output = "Exito"
            /\ escenario \in {1, 2}
            /\ (escenario = 1) <=> (total_tiempo1 <= total_tiempo2)
            /\ chosen = Min({total_tiempo1, total_tiempo2})
            /\ chosen # Inf

\* C3 witness: both totals finite, Scenario 2 strictly cheaper and chosen.
C3_Witness ==
    /\ Exito /\ escenario = 2
    /\ total_tiempo1 # Inf /\ total_tiempo2 < total_tiempo1

\* C3 witness of the tie: equal finite totals, Scenario 1 chosen.
C3_TieWitness ==
    /\ Exito /\ escenario = 1
    /\ total_tiempo1 = total_tiempo2 /\ ruta_j1 # ruta_j2

\* C4: a request ends in failure, with no route reported, exactly when both
\* scenarios' totals are infinite; otherwise it ends in success with a
\* route and a finite cost for both walkers. There is no third ending.
C4_FailureIffBothInfinite ==
    pc = "Fin" =>
        LET t1 == ScenarioTotal(G, CASA_JAVIER, CASA_ANDREINA, destino_coords)
            t2 == ScenarioTotal(G, CASA_ANDREINA, CASA_JAVIER, destino_coords)
        IN  /\ output \in {"Exito", "ErrorJavier", "ErrorAndreina", "ErrorCritico"}
            /\ (output # "Exito") <=> (t1 = Inf /\ t2 = Inf)
            /\ output = "Exito" =>
                   /\ ruta_j_final # << >> /\ ruta_a_final # << >>
                   /\ tiempo_j_final # Inf /\ tiempo_a_final # Inf
            /\ output # "Exito" =>
                   /\ ruta_j_final = << >> /\ ruta_a_final = << >>
                   /\ escenario = 0

\* C4 witness: a success although one scenario's total is infinite.
C4_Witness ==
    /\ Exito
    /\ total_tiempo1 = Inf /\ total_tiempo2 # Inf

IsReduction(g, original, ruta) ==
    /\ g.nodes = original.nodes
    /\ \A u, v \in original.nodes :
          IF {u, v} \in EdgesOf(ruta)
          THEN ~has_edge(g, u, v) /\ ~has_edge(g, v, u)
          ELSE /\ has_edge(g, u, v) <=> has_edge(original, u, v)
               /\ has_edge(g, u, v) => weight(g, u, v) = weight(original, u, v)

\* C8: in each scenario the reduced graph is exactly the original graph
\* less the streets of the first walker's route.
C8_ReducedGraphExact ==
    /\ Evaluated1 => IsReduction(G_temp1, G, ruta_j1)
    /\ Evaluated2 => IsReduction(G_temp2, G, ruta_a2)

\* C8 witness: both scenarios evaluated, each first route two or more
\* segments long, and streets left over in both reduced graphs.
C8_Witness ==
    /\ Evaluated2
    /\ Len(ruta_j1) >= 3 /\ Len(ruta_a2) >= 3
    /\ DOMAIN G_temp1.adj # {} /\ DOMAIN G_temp2.adj # {}

\* C9: on success the directive follows from the two final costs: the
\* walker with the strictly larger cost leaves first and the other leaves
\* exactly the difference later, a positive number; with equal costs both
\* leave together. One of the three is issued.
C9_Synchronization ==
    Exito =>
        /\ sincronizacion.primero \in {"Javier", "Andreina", "Juntos"}
        /\ tiempo_j_final > tiempo_a_final =>
               /\ sincronizacion.primero = "Javier"
               /\ sincronizacion.diferencia = tiempo_j_final - tiempo_a_final
               /\ sincronizacion.diferencia > 0
        /\ tiempo_a_final > tiempo_j_final =>
               /\ sincronizacion.primero = "Andreina"
               /\ sincronizacion.diferencia = tiempo_a_final - tiempo_j_final
               /\ sincronizacion.diferencia > 0
        /\ tiempo_j_final = tiempo_a_final => sincronizacion.primero = "Juntos"

\* C9 witness: Andreina is the slower walker and leaves first.
C9_Witness ==
    /\ Exito
    /\ tiempo_a_final > tiempo_j_final /\ tiempo_j_final > 0
    /\ sincronizacion.primero = "Andreina"

\* C10: on success each walker's final cost, summed on self.G along the
\* chosen route, is the cost the search returned for that walker in the
\* chosen scenario, and is never infinite.
C10_RecomputedCostAgrees ==
    Exito =>
        /\ tiempo_j_final = (IF escenario = 1 THEN tiempo_j1 ELSE tiempo_j2)
        /\ tiempo_a_final = (IF escenario = 1 THEN tiempo_a1 ELSE tiempo_a2)
        /\ tiempo_j_final # Inf /\ tiempo_a_final # Inf

\* C10 witness: the second chooser's route was found on the reduced graph
\* and costs more than its shortest route on self.G.
C10_Witness ==
    /\ Exito /\ escenario = 1
    /\ Len(ruta_a_final) >= 3
    /\ tiempo_a_final >
           find_shortest_path_dijkstra(G, CASA_ANDREINA, destino_coords).cost

\* Every simple path of g from u to t that avoids the nodes in seen (u is in
\* seen), as a sequence of nodes.
RECURSIVE PathsFrom(_, _, _, _)
PathsFrom(g, u, t, seen) ==
    IF u = t THEN {<<t>>}
    ELSE UNION {{<<u>> \o q : q \in PathsFrom(g, v, t, seen \cup {v})} :
                   v \in {x \in g.nodes \ seen : <<u, x>> \in DOMAIN g.adj}}

\* Some route for the first walker and some route for the second reach d
\* with no street in common. Two walks with no common street contain two
\* simple paths with none, so simple paths are all that need trying.
DisjointRoutesExist(g, first, second, d) ==
    \E p \in PathsFrom(g, first, d, {first}) :
        \E q \in PathsFrom(g, second, d, {second}) :
            EdgesOf(p) \cap EdgesOf(q) = {}

\* C11: whenever the critical "no hay solucion" ending is shown, the map
\* holds no two routes, one from each home to the destination, without a
\* common street.
C11_NoSolutionIsImpossible ==
    (pc = "Fin" /\ output = "ErrorCritico")
        => ~DisjointRoutesExist(G, CASA_JAVIER, CASA_ANDREINA, destino_coords)

C12_EarlyEnd ==
    /\ pc = "Fin" /\ output = "ErrorJavier"
    /\ G_temp2 = NoGraph /\ total_tiempo2 = 0

\* The sum of the weights of g along the consecutive pairs of p from pair i on.
RECURSIVE PathWeight(_, _, _)
PathWeight(g, p, i) ==
    IF i >= Len(p) THEN 0
    ELSE weight(g, p[i], p[i + 1]) + PathWeight(g, p, i + 1)

\* C13: a returned finite cost comes with a well-formed path: it starts at
\* the source, ends at the target, every consecutive pair is an edge of the
\* searched graph and the cost is the sum of those edges' weights; a finite
\* cost never comes with an empty path, nor an infinite one with a path.
C13_WellFormedPath ==
    (d_pc = "done" /\ ~result.raised) =>
        /\ (result.cost = Inf) <=> (result.path = << >>)
        /\ result.cost # Inf =>
              /\ result.path[1] = start
              /\ result.path[Len(result.path)] = end
              /\ \A i \in 1..(Len(result.path) - 1) :
                    has_edge(graph, result.path[i], result.path[i + 1])
              /\ result.cost = PathWeight(graph, result.path, 1)

\* C13 witness: a returned path of four or more nodes with a cost above
\* zero, found although a direct street joins source and target.
C13_Witness ==
    /\ d_pc = "done" /\ ~result.raised
    /\ Len(result.path) >= 4 /\ result.cost >= 1
    /\ has_edge(graph, start, end)

\* A loop iteration pushes a node only with its new best-known distance,
\* which is strictly below the one it had.
PushOnlyOnDecrease ==
    (d_pc = "loop" /\ d_pc' = "loop") =>
        \A e \in search'.priority_queue \ search.priority_queue :
            /\ search'.distances[e[2]] = e[1]
            /\ e[1] < search.distances[e[2]]

\* An extracted entry that costs more than its node's best-known distance
\* is dropped: no distance, predecessor or queue entry comes of it.
StaleDiscarded ==
    (d_pc = "loop" /\ d_pc' = "loop" /\ search.priority_queue # {}) =>
        LET top == heappop(search.priority_queue)
        IN  top[1] > search.distances[top[2]] =>
               /\ search'.distances = search.distances
               /\ search'.predecessors = search.predecessors
               /\ search'.priority_queue = search.priority_queue \ {top}

\* C14: on every graph with weights >= 0, zero-weight edges and cycles
\* included, the call comes to its end: the main loop stops (queue empty or
\* target extracted) and so does the predecessor walk; on the way a node is
\* pushed only on a strict decrease of its distance and a stale entry is
\* discarded without relaxing an edge.
C14_Terminates ==
    /\ <>(d_pc = "done")
    /\ [][PushOnlyOnDecrease /\ StaleDiscarded]_vars

\* C14 witness: a call has returned a path of three or more nodes, after
\* the break, from a source that lies on a cycle of zero-weight streets.
C14_Witness ==
    /\ d_pc = "done" /\ search.broke /\ Len(result.path) >= 3
    /\ \E u, v \in graph.nodes :
          /\ u # v /\ u # start /\ v # start
          /\ has_edge(graph, start, u) /\ weight(graph, start, u) = 0
          /\ has_edge(graph, u, v) /\ weight(graph, u, v) = 0
          /\ has_edge(graph, v, start) /\ weight(graph, v, start) = 0

\* C14: an extracted entry was stale, and the call has gone on from it.
C14_StaleSeen ==
    /\ d_pc = "loop" /\ search.priority_queue # {}
    /\ LET top == heappop(search.priority_queue)
       IN  top[1] > search.distances[top[2]]

====
